---- MODULE Spec2Model ----
(***************************************************************************)
(* The replacement filter of api/filters/replacement/replacement.go.       *)
(*                                                                         *)
(* Documents are yaml trees.  The trees live in a heap of yaml nodes       *)
(* (heap[i] is the yaml.Node with address i), because the filter works on  *)
(* pointers into the trees: Lookup returns the node inside the document,   *)
(* SetYNode assigns one node struct over another one, and Copy allocates   *)
(* a new node.  A text is a sequence of tokens, so that strings.Split and  *)
(* strings.Join are computed as the Go library computes them.              *)
(***************************************************************************)
EXTENDS Integers, Sequences, FiniteSets, TLC

\* Bounds of the model.
MaxRules == 2
MaxTargets == 2
MaxIndex == 2
\* How deep two trees are compared.
TreeDepth == 4

VARIABLES
    heap,      \* the yaml nodes: heap[i] is the node with address i
    nodes,     \* the documents handed to Filter: the addresses of their roots
    pc,        \* where Filter is: "rule", "target", "field", "done", "error", "panic"
    err,       \* the error Filter returned, "" when none
    rIdx,      \* the replacements begun so far
    tUsed,     \* the target selectors begun so far, in all replacements
    rule,      \* the replacement being applied
    value,     \* the node getReplacement returned, NIL when nil
    tlog,      \* the target selectors of this replacement begun so far, each
               \* with the documents it selected; the last one is the current one
    nIdx,      \* the document the loop over nodes is at
    fIdx,      \* the field path the loop of applyToNode is at
    heap0,     \* the nodes as they were handed to Filter
    heapR,     \* the nodes when this replacement began
    heapT,     \* the nodes when the current target selector began
    srcRoot,   \* the document selectSourceNode returned for this replacement
    resolved   \* the text of value when getReplacement returned it

vars == <<heap, nodes, pc, err, rIdx, tUsed, rule, value, tlog, nIdx, fIdx,
          heap0, heapR, heapT, srcRoot, resolved>>

NIL == 0
ErrNode == 0 - 1

Dash == <<"-">>
Dot == <<".">>
NoText == <<>>

\* types.DefaultReplacementFieldPath, "metadata.name"
DefaultReplacementFieldPath == <<"metadata", ".", "name">>
DataKeyPath == <<"data", ".", "k">>
DataPath == <<"data">>

----------------------------------------------------------------------------
\* strings.Split and strings.Join

IsPrefixAt(s, sep, i) ==
    /\ i + Len(sep) - 1 <= Len(s)
    /\ \A j \in 1..Len(sep) : s[i + j - 1] = sep[j]

RECURSIVE Split(_, _)
Split(s, sep) ==
    LET hits == {i \in 1..Len(s) : IsPrefixAt(s, sep, i)}
    IN  IF hits = {} THEN <<s>>
        ELSE LET i == CHOOSE i \in hits : \A j \in hits : i <= j
             IN  <<SubSeq(s, 1, i - 1)>> \o Split(SubSeq(s, i + Len(sep), Len(s)), sep)

RECURSIVE Join(_, _)
Join(parts, sep) ==
    IF Len(parts) = 0 THEN <<>>
    ELSE IF Len(parts) = 1 THEN parts[1]
    ELSE parts[1] \o sep \o Join(Tail(parts), sep)

----------------------------------------------------------------------------
\* yaml nodes

Scalar(text) == [kind |-> "Scalar", value |-> text, content |-> <<>>]
Mapping(fields) == [kind |-> "Mapping", value |-> NoText, content |-> fields]
Fld(key, n) == [key |-> <<key>>, node |-> n]

FieldOf(h, n, key) ==
    LET hits == {i \in 1..Len(h[n].content) : h[n].content[i].key = key}
    IN  IF hits = {} THEN NIL
        ELSE h[n].content[CHOOSE i \in hits : \A j \in hits : i <= j].node

\* yaml.Lookup: the node at the path, NIL when a field is missing, ErrNode
\* when the path runs through a node that is not a mapping.
RECURSIVE Lookup(_, _, _)
Lookup(h, n, path) ==
    IF Len(path) = 0 THEN n
    ELSE IF h[n].kind # "Mapping" THEN ErrNode
    ELSE LET c == FieldOf(h, n, Head(path))
         IN  IF c = NIL THEN NIL ELSE Lookup(h, c, Tail(path))

\* yaml.LookupCreate: as Lookup, but a missing field is created: a mapping
\* on the way, a node of the given kind at the end of the path.
RECURSIVE LookupCreate(_, _, _, _)
LookupCreate(h, n, path, kind) ==
    IF Len(path) = 0 THEN [heap |-> h, node |-> n]
    ELSE IF h[n].kind # "Mapping" THEN [heap |-> h, node |-> ErrNode]
    ELSE LET c == FieldOf(h, n, Head(path))
         IN  IF c # NIL THEN LookupCreate(h, c, Tail(path), kind)
             ELSE LET new == Len(h) + 1
                      made == [kind |-> IF Len(path) = 1 THEN kind ELSE "Mapping",
                               value |-> NoText, content |-> <<>>]
                      h2 == Append([h EXCEPT ![n].content =
                                       Append(@, [key |-> Head(path), node |-> new])],
                                   made)
                  IN  LookupCreate(h2, new, Tail(path), kind)

\* yaml.GetValue
GetValue(h, n) == IF n = NIL THEN NoText ELSE h[n].value

\* RNode.IsNilOrEmpty
IsNilOrEmpty(h, n) ==
    \/ n = NIL
    \/ h[n].kind = "Mapping" /\ Len(h[n].content) = 0
    \/ h[n].kind = "Scalar" /\ Len(h[n].value) = 0

\* RNode.Copy of a scalar node: a new node with the same fields.
Copy(h, n) == [heap |-> Append(h, h[n]), node |-> Len(h) + 1]

\* RNode.SetYNode: *t = *val; nothing when val is nil.
SetYNode(h, t, val) == IF val = NIL THEN h ELSE [h EXCEPT ![t] = h[val]]

\* The tree below node n, unfolded to depth d.
RECURSIVE Tree(_, _, _)
Tree(h, n, d) ==
    IF n = NIL \/ n = ErrNode THEN <<"absent">>
    ELSE IF d = 0 THEN <<"cut">>
    ELSE <<h[n].kind, h[n].value,
           [i \in 1..Len(h[n].content) |->
               <<h[n].content[i].key, Tree(h, h[n].content[i].node, d - 1)>>]>>

----------------------------------------------------------------------------
\* Identities and selectors.  Of the fields of a KrmId the model keeps kind
\* and name; group, version and namespace are compared the same way.

ZeroId == [kind |-> NoText, name |-> NoText]

getKrmId(h, n) ==
    IF Lookup(h, n, <<<<"metadata">>>>) = NIL THEN ZeroId
    ELSE [kind |-> GetValue(h, Lookup(h, n, <<<<"kind">>>>)),
          name |-> GetValue(h, Lookup(h, n, <<<<"metadata">>, <<"name">>>>))]

\* KrmId.Match: an empty field of the selector matches anything.
Match(id, other) ==
    /\ id.kind = NoText \/ id.kind = other.kind
    /\ id.name = NoText \/ id.name = other.name

rejectId(rejects, nodeId) ==
    \E i \in 1..Len(rejects) : Match(rejects[i], nodeId)

Selected(h, n, t) ==
    Match(t.select, getKrmId(h, n)) /\ ~rejectId(t.reject, getKrmId(h, n))

----------------------------------------------------------------------------
\* Source resolution

Fail(h, e) == [heap |-> h, err |-> e, node |-> NIL]

\* selectSourceNode without the test for a second match: the first match wins.
selectSourceNodeFirst(h, ns, selector) ==
    LET matches == {i \in 1..Len(ns) : Match(selector.krm, getKrmId(h, ns[i]))}
    IN  IF matches = {} THEN Fail(h, "NoSourceMatch")
        ELSE [heap |-> h, err |-> "",
              node |-> ns[CHOOSE i \in matches : \A j \in matches : i <= j]]

selectSourceNode(h, ns, selector) ==
    LET matches == {i \in 1..Len(ns) : Match(selector.krm, getKrmId(h, ns[i]))}
    IN  IF Cardinality(matches) > 1 THEN Fail(h, "AmbiguousSource")
        ELSE IF matches = {} THEN Fail(h, "NoSourceMatch")
        ELSE [heap |-> h, err |-> "", node |-> ns[CHOOSE i \in matches : TRUE]]

\* getRefinedValue without the copy: the part is written into the source node.
getRefinedValueInPlace(h, options, rn) ==
    IF options.nil \/ options.delimiter = NoText THEN [heap |-> h, err |-> "", node |-> rn]
    ELSE IF h[rn].kind # "Scalar" THEN Fail(h, "InvalidRefinementTarget")
    ELSE LET val == Split(GetValue(h, rn), options.delimiter)
         IN  IF options.index >= Len(val) \/ options.index < 0
             THEN Fail(h, "IndexOutOfBounds")
             ELSE [heap |-> [h EXCEPT ![rn].value = val[options.index + 1]],
                   err |-> "", node |-> rn]

getRefinedValue(h, options, rn) ==
    IF options.nil \/ options.delimiter = NoText THEN [heap |-> h, err |-> "", node |-> rn]
    ELSE IF h[rn].kind # "Scalar" THEN Fail(h, "InvalidRefinementTarget")
    ELSE LET val == Split(GetValue(h, rn), options.delimiter)
         IN  IF options.index >= Len(val) \/ options.index < 0
             THEN Fail(h, "IndexOutOfBounds")
             ELSE LET c == Copy(h, rn)
                  IN  [heap |-> [c.heap EXCEPT ![c.node].value = val[options.index + 1]],
                       err |-> "", node |-> c.node]

SourceFieldPath(source) ==
    IF source.fieldPath = NoText THEN DefaultReplacementFieldPath ELSE source.fieldPath

\* getReplacement reading the documents as they were handed to Filter.
getReplacementStale(h, ns, source) ==
    LET sel == selectSourceNode(heap0, ns, source)
    IN  IF sel.err # "" THEN Fail(h, sel.err)
        ELSE LET rn == Lookup(heap0, sel.node, Split(SourceFieldPath(source), Dot))
             IN  IF rn = ErrNode THEN Fail(h, "TreeLookupFailure")
                 ELSE IF rn = NIL THEN [heap |-> h, err |-> "", node |-> NIL]
                 ELSE LET old == [heap |-> Append(h, heap0[rn]), node |-> Len(h) + 1]
                      IN  IF ~IsNilOrEmpty(old.heap, old.node)
                          THEN getRefinedValue(old.heap, source.options, old.node)
                          ELSE [heap |-> old.heap, err |-> "", node |-> old.node]

getReplacement(h, ns, source) ==
    LET sel == selectSourceNode(h, ns, source)
    IN  IF sel.err # "" THEN sel
        ELSE LET rn == Lookup(h, sel.node, Split(SourceFieldPath(source), Dot))
             IN  IF rn = ErrNode THEN Fail(h, "TreeLookupFailure")
                 ELSE IF ~IsNilOrEmpty(h, rn) THEN getRefinedValue(h, source.options, rn)
                 ELSE [heap |-> h, err |-> "", node |-> rn]

----------------------------------------------------------------------------
\* Injection

\* The switch without its suffix case: an index past the end replaces the
\* last element.
SplicePartsNoSuffix(tv, v, index) ==
    IF index < 0 THEN <<v>> \o tv
    ELSE IF index >= Len(tv) THEN [tv EXCEPT ![Len(tv)] = v]
    ELSE [tv EXCEPT ![index + 1] = v]

\* The switch of setTargetValue: prefix, suffix, or replace an element.
SpliceParts(tv, v, index) ==
    IF index < 0 THEN <<v>> \o tv
    ELSE IF index >= Len(tv) THEN Append(tv, v)
    ELSE [tv EXCEPT ![index + 1] = v]

setTargetValue(h, options, t, val) ==
    IF ~options.nil /\ options.delimiter # NoText
    THEN IF h[t].kind # "Scalar" THEN [heap |-> h, err |-> "InvalidRefinementTarget"]
         ELSE IF val = NIL THEN [heap |-> h, err |-> "panic"]
         ELSE LET tv == Split(h[t].value, options.delimiter)
                  v == GetValue(h, val)
                  h1 == [h EXCEPT ![val].value =
                            Join(SpliceParts(tv, v, options.index), options.delimiter)]
              IN  [heap |-> SetYNode(h1, t, val), err |-> ""]
    ELSE [heap |-> SetYNode(h, t, val), err |-> ""]

\* One iteration of the loop of applyToNode: field path fp of document node.
applyToField(h, node, val, target, fp) ==
    LET fieldPath == Split(fp, Dot)
    IN  IF ~target.options.nil /\ target.options.create
        THEN IF val = NIL THEN [heap |-> h, err |-> "panic"]
             ELSE LET r == LookupCreate(h, node, fieldPath, h[val].kind)
                  IN  IF r.node = ErrNode THEN [heap |-> r.heap, err |-> "TreeLookupFailure"]
                      ELSE setTargetValue(r.heap, target.options, r.node, val)
        ELSE LET t == Lookup(h, node, fieldPath)
             IN  IF t = ErrNode THEN [heap |-> h, err |-> "TreeLookupFailure"]
                 ELSE IF t = NIL THEN [heap |-> h, err |-> ""]
                 ELSE setTargetValue(h, target.options, t, val)

TargetFieldPaths(t) ==
    IF Len(t.fieldPaths) = 0 THEN <<DefaultReplacementFieldPath>> ELSE t.fieldPaths

----------------------------------------------------------------------------
\* The inputs: documents, replacements, target selectors

NilOptions == [nil |-> TRUE, delimiter |-> NoText, index |-> 0, create |-> FALSE]
Options(d, i, c) == [nil |-> FALSE, delimiter |-> d, index |-> i, create |-> c]

Krm(k, n) == [kind |-> k, name |-> n]

\* A document: kind, metadata.name, and data.
DocC == <<Mapping(<<Fld("kind", 2), Fld("metadata", 3), Fld("data", 5)>>),
          Scalar(<<"C">>), Mapping(<<Fld("name", 4)>>), Scalar(<<"c">>),
          Mapping(<<Fld("k", 6)>>), Scalar(<<"a", "-", "b">>)>>
DocD == <<Mapping(<<Fld("kind", 8), Fld("metadata", 9), Fld("data", 11)>>),
          Scalar(<<"D">>), Mapping(<<Fld("name", 10)>>), Scalar(<<"d">>),
          Mapping(<<Fld("k", 12)>>), Scalar(<<"x", "-", "y">>)>>
\* The third document: a second D, a second C without data, or a document
\* without metadata whose data is a scalar.
ThirdDocs ==
    { <<Mapping(<<Fld("kind", 14), Fld("metadata", 15), Fld("data", 17)>>),
        Scalar(<<"D">>), Mapping(<<Fld("name", 16)>>), Scalar(<<"e">>),
        Mapping(<<Fld("k", 18)>>), Scalar(<<"p", "-", "q">>)>>,
      <<Mapping(<<Fld("kind", 14), Fld("metadata", 15)>>),
        Scalar(<<"C">>), Mapping(<<Fld("name", 16)>>), Scalar(<<"e">>)>>,
      <<Mapping(<<Fld("data", 14)>>), Scalar(<<"s">>)>> }

SourcePatterns == {Krm(<<"C">>, NoText), Krm(<<"D">>, NoText), Krm(NoText, <<"e">>)}
SourcePaths == {NoText, DataKeyPath, DataPath}
SourceOptions == {NilOptions, Options(Dash, 0, FALSE), Options(Dash, MaxIndex, FALSE)}

Sources == [krm : SourcePatterns, fieldPath : SourcePaths, options : SourceOptions]

Rules == [sourceNil : {FALSE}, targetsNil : {FALSE}, source : Sources]
           \cup [sourceNil : {TRUE}, targetsNil : {FALSE},
                 source : {[krm |-> Krm(NoText, NoText), fieldPath |-> NoText,
                            options |-> NilOptions]}]
           \cup [sourceNil : {FALSE}, targetsNil : {TRUE},
                 source : {[krm |-> Krm(<<"C">>, NoText), fieldPath |-> NoText,
                            options |-> NilOptions]}]

TargetOptions == {NilOptions, Options(NoText, 0, TRUE), Options(Dash, 0, TRUE),
                  Options(Dash, 0, FALSE)}

\* select and reject of a target selector: every D; every document but the
\* Cs; every document but the one named d and the Cs.
Selections == {[select |-> Krm(<<"D">>, NoText), reject |-> <<>>],
               [select |-> Krm(NoText, NoText), reject |-> <<Krm(<<"C">>, NoText)>>],
               [select |-> Krm(NoText, NoText),
                reject |-> <<Krm(NoText, <<"d">>), Krm(<<"C">>, NoText)>>]}

TargetFieldPathLists == {<<>>, <<DataKeyPath, DefaultReplacementFieldPath>>}

Targets == {[selectNil |-> FALSE, select |-> s.select, reject |-> s.reject,
             fieldPaths |-> f, options |-> o] :
               s \in Selections, f \in TargetFieldPathLists, o \in TargetOptions}
           \cup {[selectNil |-> TRUE, select |-> Krm(NoText, NoText), reject |-> <<>>,
                  fieldPaths |-> <<>>, options |-> NilOptions]}

----------------------------------------------------------------------------
\* Filter

Current == tlog[Len(tlog)].sel

Init ==
    /\ \E third \in ThirdDocs : heap = DocC \o DocD \o third
    /\ nodes = <<1, 7, 13>>
    /\ pc = "rule"
    /\ err = ""
    /\ rIdx = 0
    /\ tUsed = 0
    /\ rule \in [sourceNil : {TRUE}, targetsNil : {FALSE},
                 source : {[krm |-> Krm(NoText, NoText), fieldPath |-> NoText,
                            options |-> NilOptions]}]
    /\ value = NIL
    /\ tlog = <<>>
    /\ nIdx = 0
    /\ fIdx = 0
    /\ heap0 = heap
    /\ heapR = heap
    /\ heapT = heap
    /\ srcRoot = NIL
    /\ resolved = NoText

\* Filter stops and undoes what the replacement wrote.
StopRollback(h, e) ==
    /\ pc' = IF e = "panic" THEN "panic" ELSE "error"
    /\ err' = e
    /\ heap' = heapR

\* return nil, err: Filter stops, the documents stay as they are.
Stop(h, e) ==
    /\ pc' = IF e = "panic" THEN "panic" ELSE "error"
    /\ err' = e
    /\ heap' = h

\* The head of the loop of Filter: the next replacement, its check, and
\* getReplacement.
BeginRule ==
    /\ pc = "rule"
    /\ rIdx < MaxRules
    /\ \E r \in Rules :
        /\ rule' = r
        /\ rIdx' = rIdx + 1
        /\ tlog' = <<>>
        /\ heapR' = heap
        /\ heapT' = heap
        /\ UNCHANGED <<nodes, tUsed, nIdx, fIdx, heap0>>
        /\ IF r.sourceNil \/ r.targetsNil
           THEN /\ Stop(heap, "InvalidRule")
                /\ value' = NIL /\ srcRoot' = NIL /\ resolved' = NoText
           ELSE LET g == getReplacement(heap, nodes, r.source)
                IN  IF g.err # ""
                    THEN /\ Stop(heap, g.err)
                         /\ value' = NIL /\ srcRoot' = NIL /\ resolved' = NoText
                    ELSE /\ pc' = "target"
                         /\ heap' = g.heap
                         /\ value' = g.node
                         /\ srcRoot' = selectSourceNode(heap, nodes, r.source).node
                         /\ resolved' = GetValue(g.heap, g.node)
                         /\ UNCHANGED err

\* The loop of Filter is over: return nodes, nil.
EndFilter ==
    /\ pc = "rule"
    /\ pc' = "done"
    /\ UNCHANGED <<heap, nodes, err, rIdx, tUsed, rule, value, tlog, nIdx, fIdx,
                   heap0, heapR, heapT, srcRoot, resolved>>

\* The loop over nodes of applyReplacement, from document i on: the first
\* document that passes the test of line 47, 0 when the loop ends without one.
NextSelected(h, t, i) ==
    LET hits == {j \in i..Len(nodes) : Selected(h, nodes[j], t)}
    IN  IF hits = {} THEN 0 ELSE CHOOSE j \in hits : \A k \in hits : j <= k

\* The loop over nodes goes on from document i.
Advance(h, t, i) ==
    LET j == NextSelected(h, t, i)
    IN  IF j = 0
        THEN pc' = "target" /\ nIdx' = Len(nodes) /\ fIdx' = 0
        ELSE pc' = "field" /\ nIdx' = j /\ fIdx' = 1

\* The head of the loop of applyReplacement: the next target selector, up
\* to the first document it selects.
BeginTarget ==
    /\ pc = "target"
    /\ tUsed < MaxTargets
    /\ \E t \in Targets :
        /\ tUsed' = tUsed + 1
        /\ UNCHANGED <<nodes, rIdx, rule, value, heap0, heapR, srcRoot, resolved>>
        /\ IF t.selectNil
           THEN /\ Stop(heap, "MissingTargetSelector")
                /\ UNCHANGED <<tlog, nIdx, fIdx, heapT>>
           ELSE LET sel == [t EXCEPT !.fieldPaths = TargetFieldPaths(t)]
                IN  /\ tlog' = Append(tlog, [sel |-> sel,
                                             hit |-> {NextSelected(heap, sel, 1)} \ {0}])
                    /\ Advance(heap, sel, 1)
                    /\ heapT' = heap
                    /\ UNCHANGED <<heap, err>>

\* The loop of applyReplacement is over: back to the loop of Filter.
EndRule ==
    /\ pc = "target"
    /\ pc' = "rule"
    /\ UNCHANGED <<heap, nodes, err, rIdx, tUsed, rule, value, tlog, nIdx, fIdx,
                   heap0, heapR, heapT, srcRoot, resolved>>

\* One iteration of the loop of applyToNode, and after the last one the loop
\* over nodes up to the next document the target selects.
ApplyField ==
    /\ pc = "field"
    /\ UNCHANGED <<nodes, rIdx, tUsed, rule, value, heap0, heapR, heapT,
                   srcRoot, resolved>>
    /\ LET r == applyToField(heap, nodes[nIdx], value, Current, Current.fieldPaths[fIdx])
       IN  IF r.err # ""
           THEN /\ Stop(r.heap, r.err)
                /\ UNCHANGED <<nIdx, fIdx, tlog>>
           ELSE /\ heap' = r.heap
                /\ UNCHANGED err
                /\ IF fIdx < Len(Current.fieldPaths)
                   THEN /\ fIdx' = fIdx + 1
                        /\ UNCHANGED <<pc, nIdx, tlog>>
                   ELSE /\ Advance(r.heap, Current, nIdx + 1)
                        /\ tlog' = [tlog EXCEPT ![Len(tlog)].hit =
                                       @ \cup ({NextSelected(r.heap, Current, nIdx + 1)} \ {0})]

Next == BeginRule \/ EndFilter \/ BeginTarget \/ EndRule \/ ApplyField

Spec == Init /\ [][Next]_vars

----------------------------------------------------------------------------
\* setTargetValue and getRefinedValue on their own: node 1 is the target (or
\* the source field), node 2 the value (or the child of a mapping).

PureTexts == {NoText, <<"a">>, <<"-">>, <<"a", "-", "b">>, <<"x", "-", "y", "-", "z">>,
              <<"a", "-", "b", "-", "c">>, <<"a", "-">>}
PureValues == {<<"p">>, <<"s">>, <<"b">>}
Indexes == (0 - 2)..(MaxIndex + 3)
PureOptions == {NilOptions} \cup {Options(d, i, FALSE) : d \in {NoText, Dash}, i \in Indexes}
PureNodes == {Scalar(t) : t \in PureTexts} \cup {Mapping(<<Fld("k", 2)>>)}

InitPure ==
    /\ heap \in {<<n, Scalar(v)>> : n \in PureNodes, v \in PureValues}
    /\ nodes = <<1>>
    /\ pc \in {"inject", "refine"}
    /\ err = ""
    /\ rIdx = 0
    /\ tUsed = 0
    /\ \E o \in PureOptions :
         /\ rule = [sourceNil |-> FALSE, targetsNil |-> FALSE,
                    source |-> [krm |-> Krm(NoText, NoText), fieldPath |-> NoText,
                                options |-> o]]
         /\ tlog = <<[sel |-> [selectNil |-> FALSE, select |-> Krm(NoText, NoText),
                               reject |-> <<>>, fieldPaths |-> <<NoText>>, options |-> o],
                      hit |-> {}]>>
    /\ value = NIL
    /\ nIdx = 0
    /\ fIdx = 0
    /\ heap0 = heap
    /\ heapR = heap
    /\ heapT = heap
    /\ srcRoot = NIL
    /\ resolved = NoText

\* setTargetValue(options, t, value) with t node 1 and value node 2.
Inject ==
    /\ pc = "inject"
    /\ LET r == setTargetValue(heap, Current.options, 1, 2)
       IN  heap' = r.heap /\ err' = r.err
    /\ value' = 2
    /\ pc' = "injected"
    /\ UNCHANGED <<nodes, rIdx, tUsed, rule, tlog, nIdx, fIdx, heap0, heapR, heapT,
                   srcRoot, resolved>>

\* getRefinedValue(options, rn) with rn node 1.
Refine ==
    /\ pc = "refine"
    /\ LET r == getRefinedValue(heap, rule.source.options, 1)
       IN  heap' = r.heap /\ err' = r.err /\ value' = r.node
    /\ pc' = "refined"
    /\ UNCHANGED <<nodes, rIdx, tUsed, rule, tlog, nIdx, fIdx, heap0, heapR, heapT,
                   srcRoot, resolved>>

NextPure == Inject \/ Refine

SpecPure == InitPure /\ [][NextPure]_vars

----------------------------------------------------------------------------
\* What the claims speak of

Docs == 1..Len(nodes)

Same(h1, n1, h2, n2) == Tree(h1, n1, TreeDepth) = Tree(h2, n2, TreeDepth)

DocSame(h1, h2, i) == Same(h1, nodes[i], h2, nodes[i])

\* The field of the source document at the source path.
SrcField(h) == Lookup(h, srcRoot, Split(SourceFieldPath(rule.source), Dot))

HasDelimiter(options) == ~options.nil /\ options.delimiter # NoText

\* The documents the target selectors of this replacement selected.
Hits == UNION {tlog[j].hit : j \in 1..Len(tlog)}

\* A replacement was applied to the end, without an error.
RuleOver == rIdx > 0 /\ pc \in {"rule", "done"}

\* getReplacement returned without an error.
Resolved == srcRoot # NIL

\* C1: the source value never aliases the source field: after a replacement
\* whose source document no target selector selected, the field of the source
\* document at the source path is what it was before the replacement.
C1_SourceFieldKept ==
    (RuleOver /\ Resolved /\ \A i \in Hits : nodes[i] # srcRoot)
        => Same(heap, SrcField(heap), heapR, SrcField(heapR))

\* C2: a replacement with a source and targets whose source selector matches
\* no document fails with NoSourceMatch, one whose selector matches two or
\* more fails with AmbiguousSource, before any target selector is begun and
\* with no node changed.
SourceMatches ==
    Cardinality({i \in Docs : Match(rule.source.krm, getKrmId(heapR, nodes[i]))})

FailedAtSource(e) == pc = "error" /\ err = e /\ tlog = <<>> /\ heap = heapR

C2_SourceErrors ==
    (rIdx > 0 /\ ~rule.sourceNil /\ ~rule.targetsNil)
        => /\ SourceMatches = 0 => FailedAtSource("NoSourceMatch")
           /\ SourceMatches > 1 => FailedAtSource("AmbiguousSource")
           /\ SourceMatches = 1 => err \notin {"NoSourceMatch", "AmbiguousSource"}

C2_Witness ==
    /\ rIdx = 2 /\ pc = "error" /\ err = "AmbiguousSource"
    /\ \E i \in Docs : ~DocSame(heap, heap0, i)

\* C3: a document that matches select and a pattern of reject of a target
\* selector is the same after the target selector was applied as before.
C3_RejectedKept ==
    Len(tlog) > 0 =>
        \A i \in Docs :
            (/\ Match(Current.select, getKrmId(heapT, nodes[i]))
             /\ rejectId(Current.reject, getKrmId(heapT, nodes[i])))
                => DocSame(heap, heapT, i)

\* C4: after a replacement without delimiters whose source resolved to a
\* value, every field path of a target selector that exists in a document the
\* target selector selected holds the source value, and the documents no
\* target selector selected are as they were.
NoDelimiters ==
    /\ ~HasDelimiter(rule.source.options)
    /\ \A j \in 1..Len(tlog) : ~HasDelimiter(tlog[j].sel.options)

C4_TargetsHoldSource ==
    (RuleOver /\ Resolved /\ value # NIL /\ NoDelimiters)
        => /\ \A j \in 1..Len(tlog) : \A i \in tlog[j].hit :
                \A f \in 1..Len(tlog[j].sel.fieldPaths) :
                    LET t == Lookup(heap, nodes[i], Split(tlog[j].sel.fieldPaths[f], Dot))
                    IN  t \notin {NIL, ErrNode}
                            => Same(heap, t, heapR, SrcField(heapR))
           /\ \A i \in Docs \ Hits : DocSame(heap, heapR, i)

\* C6: Filter stops at the first error: nothing is done after it, and what
\* was written before it stays: the step that fails changes no kind and no
\* text of a node and removes no field.
KeptAll(h1, h2) ==
    /\ Len(h2) >= Len(h1)
    /\ \A n \in 1..Len(h1) :
        /\ h2[n].kind = h1[n].kind
        /\ h2[n].value = h1[n].value
        /\ Len(h2[n].content) >= Len(h1[n].content)
        /\ SubSeq(h2[n].content, 1, Len(h1[n].content)) = h1[n].content

C6_FailFast ==
    [][/\ pc # "error"
       /\ pc' = "error" => KeptAll(heap, heap')
       /\ rIdx' \in {rIdx, rIdx + 1}]_vars

C6_Witness ==
    /\ pc = "error" /\ err = "TreeLookupFailure" /\ rIdx = 2 /\ Len(tlog) = 1
    /\ \E i \in Docs : ~DocSame(heap, heapR, i)
    /\ \E i \in Docs : ~DocSame(heapR, heap0, i)

\* C7: when the source path does not resolve, the replacement is a no-op:
\* Filter does not crash and every document stays as it was.
C7_AbsentSourceNoOp ==
    (Resolved /\ value = NIL)
        => /\ pc # "panic"
           /\ \A i \in Docs : DocSame(heap, heapR, i)

\* C8: a replacement reads its source from the documents as the replacement
\* before it left them: the value getReplacement returns is the field of the
\* source document as it is when the replacement begins (the part at index of
\* it under a source delimiter).
SourceTextNow ==
    LET text == GetValue(heapR, SrcField(heapR))
        o == rule.source.options
    IN  IF HasDelimiter(o) /\ ~IsNilOrEmpty(heapR, SrcField(heapR))
        THEN Split(text, o.delimiter)[o.index + 1]
        ELSE text

C8_SeesEarlierRules ==
    (Resolved /\ value # NIL)
        => /\ resolved = SourceTextNow
           /\ (pc = "target" /\ tlog = <<>> /\ ~HasDelimiter(rule.source.options))
                => Same(heap, value, heapR, SrcField(heapR))

C8_Witness ==
    /\ rIdx = 2 /\ RuleOver /\ Resolved /\ value # NIL /\ NoDelimiters
    /\ GetValue(heapR, SrcField(heapR)) # GetValue(heap0, SrcField(heap0))
    /\ resolved = GetValue(heapR, SrcField(heapR))
    /\ \E i \in Hits :
         /\ nodes[i] # srcRoot
         /\ GetValue(heap, Lookup(heap, nodes[i], Split(DefaultReplacementFieldPath, Dot)))
              = resolved
         /\ ~DocSame(heap, heapR, i)

\* C9: under a target delimiter every injection inserts the text
\* getReplacement returned: the new text of the field is its own text before
\* the injection with that text put in front, at the end or at the index.
C9_InsertsSourceText ==
    [][(pc = "field" /\ HasDelimiter(Current.options) /\ value # NIL)
         => LET t == Lookup(heap, nodes[nIdx], Split(Current.fieldPaths[fIdx], Dot))
                d == Current.options.delimiter
            IN  (t \notin {NIL, ErrNode} /\ heap[t].kind = "Scalar")
                  => heap'[t].value =
                       Join(SpliceParts(Split(heap[t].value, d), resolved,
                                        Current.options.index), d)]_vars

\* C5: injection under a target delimiter never fails on the index: with the
\* text of the scalar target split into parts p, a negative index gives v
\* followed by p, an index of Len(p) or more gives p followed by v, any other
\* index gives p with the part at the index replaced by v.
Text(a, b, c) == <<a, "-", b, "-", c>>

Spliced(p, v, i, d) ==
    IF i < 0 THEN Join(<<v>> \o p, d)
    ELSE IF i >= Len(p) THEN Join(p \o <<v>>, d)
    ELSE Join([k \in 1..Len(p) |-> IF k = i + 1 THEN v ELSE p[k]], d)

C5_TargetSplice ==
    (pc = "injected" /\ HasDelimiter(Current.options) /\ heapT[1].kind = "Scalar")
        => LET o == Current.options
               was == heapT[1].value
               v == heapT[2].value
               now == heap[1].value
           IN  /\ err = ""
               /\ heap[1].kind = "Scalar"
               /\ now = Spliced(Split(was, o.delimiter), v, o.index, o.delimiter)
               /\ (was = <<"a", "-", "b">> /\ v = <<"p">> /\ o.index = 0 - 1)
                    => now = Text("p", "a", "b")
               /\ (was = <<"a", "-", "b">> /\ v = <<"s">> /\ o.index = 5)
                    => now = Text("a", "b", "s")
               /\ (was = <<"x", "-", "y", "-", "z">> /\ v = <<"b">> /\ o.index = 1)
                    => now = Text("x", "b", "z")

C5_Witness ==
    /\ pc = "injected" /\ err = ""
    /\ Current.options.delimiter = Dash /\ Current.options.index = 5
    /\ heapT[1].value = <<"a", "-", "b">> /\ heapT[2].value = <<"s">>
    /\ heap[1].value = Text("a", "b", "s")

\* C10: refinement of a non-empty value under a source delimiter fails with
\* InvalidRefinementTarget when the value is no scalar; else with
\* IndexOutOfBounds exactly when the index is negative or not less than the
\* number of parts; else it returns a new node whose text is the part at the
\* index and leaves the source node as it is.  Without options or without a
\* delimiter it returns the node itself.
C10_SourceRefinement ==
    (pc = "refined" /\ ~IsNilOrEmpty(heapT, 1))
        => LET o == rule.source.options
               parts == Split(heapT[1].value, o.delimiter)
           IN  IF ~HasDelimiter(o)
               THEN err = "" /\ value = 1 /\ heap = heapT
               ELSE IF heapT[1].kind # "Scalar"
               THEN err = "InvalidRefinementTarget" /\ heap = heapT
               ELSE IF o.index < 0 \/ o.index >= Len(parts)
               THEN err = "IndexOutOfBounds" /\ heap = heapT
               ELSE /\ err = ""
                    /\ value \notin {NIL, 1, 2}
                    /\ heap[value] = Scalar(parts[o.index + 1])
                    /\ heap[1] = heapT[1]
                    /\ heap[2] = heapT[2]

C10_Witness ==
    /\ pc = "refined" /\ err = ""
    /\ rule.source.options.delimiter = Dash /\ rule.source.options.index = 1
    /\ heapT[1].value = <<"a", "-", "b", "-", "c">>
    /\ value = 3 /\ heap[3].value = <<"b">> /\ heap[1] = heapT[1]

====
